---- MODULE Spec2Model ----
(***************************************************************************)
(* Document Intelligence API: the field-extraction engine                  *)
(* (src/src/ocr_engine.py), the invoice and receipt parsers                *)
(* (src/src/parsers.py) and the extraction endpoints (src/main.py).        *)
(*                                                                         *)
(* A Python str is a sequence of one-character strings.  A float           *)
(* confidence is kept in hundredths (0.5 is 50, 0.25 is 25, 1.0 is 100):   *)
(* every value the code computes is a multiple of 0.05 reached by at most  *)
(* two binary-exact additions, so the hundredths are exact.                *)
(***************************************************************************)
EXTENDS Integers, Sequences, FiniteSets

VARIABLES
    text,       \* the text of the document under analysis
    pieces,     \* how many pieces text was put together from
    out,        \* what the functions applied to text returned
    pc,         \* position of the request being served
    endpoint,   \* which handler serves the request
    files,      \* the uploaded files of the request
    idx,        \* extract_batch: number of files the loop has finished
    results,    \* extract_batch: the results list
    response,   \* the HTTP response, once produced
    tmpfiles,   \* the temp files that exist on disk
    created,    \* the temp files this request created
    parseLog    \* the parser calls of this request, with their outcome

vars == <<text, pieces, out, pc, endpoint, files, idx, results, response,
          tmpfiles, created, parseLog>>

textVars == <<text, pieces, out>>
apiVars == <<pc, endpoint, files, idx, results, response, tmpfiles,
             created, parseLog>>

-----------------------------------------------------------------------------
(* Characters and string primitives of Python                              *)

Digits == {"0", "1", "2", "3", "4", "5", "6", "7", "8", "9"}

ascii_uppercase ==
    <<"A", "B", "C", "D", "E", "F", "G", "H", "I", "J", "K", "L", "M",
      "N", "O", "P", "Q", "R", "S", "T", "U", "V", "W", "X", "Y", "Z">>

ascii_lowercase ==
    <<"a", "b", "c", "d", "e", "f", "g", "h", "i", "j", "k", "l", "m",
      "n", "o", "p", "q", "r", "s", "t", "u", "v", "w", "x", "y", "z">>

Letters ==
    {ascii_uppercase[k] : k \in 1..26} \cup {ascii_lowercase[k] : k \in 1..26}

\* \w of the re module
WordChars == Digits \cup Letters \cup {"_"}

\* the characters str.strip() removes
Whitespace == {" ", "\t", "\n", "\r", "\f"}

\* Python's None
None == <<"None">>

IsDigitAt(s, i) == i >= 1 /\ i <= Len(s) /\ s[i] \in Digits

IsWordAt(s, i) == i >= 1 /\ i <= Len(s) /\ s[i] \in WordChars

\* \b before position i: exactly one of s[i-1], s[i] is a word character
WordBoundary(s, i) == IsWordAt(s, i - 1) # IsWordAt(s, i)

AllDigits(s, from, to) == \A k \in from..to : IsDigitAt(s, k)

Least(S) == CHOOSE m \in S : \A n \in S : m <= n

Max(S) == CHOOSE m \in S : \A n \in S : n <= m

\* the positions of s that hold no whitespace
Inked(s) == {k \in 1..Len(s) : s[k] \notin Whitespace}

lstrip(s) ==
    IF Inked(s) = {} THEN <<>> ELSE SubSeq(s, Least(Inked(s)), Len(s))

rstrip(s) ==
    IF Inked(s) = {} THEN <<>> ELSE SubSeq(s, 1, Max(Inked(s)))

strip(s) == rstrip(lstrip(s))

\* index of the first sep in s at or after i, 0 when there is none
find(s, sep, i) ==
    LET at == {k \in i..Len(s) : s[k] = sep} IN
    IF at = {} THEN 0 ELSE Least(at)

\* str.split(sep): always at least one element
RECURSIVE split(_, _)
split(s, sep) ==
    LET k == find(s, sep, 1) IN
    IF k = 0 THEN <<s>>
    ELSE <<SubSeq(s, 1, k - 1)>> \o split(SubSeq(s, k + 1, Len(s)), sep)

\* str.lower() on the ASCII letters
lowerChar(c) ==
    IF \E k \in 1..26 : ascii_uppercase[k] = c
    THEN ascii_lowercase[CHOOSE k \in 1..26 : ascii_uppercase[k] = c]
    ELSE c

lower(s) == [k \in 1..Len(s) |-> lowerChar(s[k])]

endswith(s, suffix) ==
    /\ Len(s) >= Len(suffix)
    /\ SubSeq(s, Len(s) - Len(suffix) + 1, Len(s)) = suffix

\* sub in s
contains(s, sub) ==
    \E k \in 1..(Len(s) - Len(sub) + 1) :
        SubSeq(s, k, k + Len(sub) - 1) = sub

-----------------------------------------------------------------------------
(* The re module on the three patterns of OCREngine.  Each pattern         *)
(* operator gives the length of the match that starts at position i, and   *)
(* 0 when the pattern does not match there (no pattern matches the empty   *)
(* string).                                                                *)

CharAt(s, i) == IF i >= 1 /\ i <= Len(s) THEN s[i] ELSE ""

\* r'\d{4}-\d{2}-\d{2}'
DatePatternISO(s, i) ==
    IF /\ AllDigits(s, i, i + 3)
       /\ CharAt(s, i + 4) = "-"
       /\ AllDigits(s, i + 5, i + 6)
       /\ CharAt(s, i + 7) = "-"
       /\ AllDigits(s, i + 8, i + 9)
    THEN 10
    ELSE 0

\* r'\d{2}[/-]\d{2}[/-]\d{2,4}': the last group is greedy
DatePatternDMY(s, i) ==
    IF /\ AllDigits(s, i, i + 1)
       /\ CharAt(s, i + 2) \in {"/", "-"}
       /\ AllDigits(s, i + 3, i + 4)
       /\ CharAt(s, i + 5) \in {"/", "-"}
       /\ AllDigits(s, i + 6, i + 7)
    THEN Max({n \in 2..4 : AllDigits(s, i + 6, i + 5 + n)}) + 6
    ELSE 0

\* the amount pattern without its closing \b
AmountTry_no_closing_boundary(s, i, d, g) ==
    LET dot == i + d + 4 * g IN
    /\ WordBoundary(s, i)
    /\ AllDigits(s, i, i + d - 1)
    /\ \A j \in 0..(g - 1) :
           /\ CharAt(s, i + d + 4 * j) = ","
           /\ AllDigits(s, i + d + 4 * j + 1, i + d + 4 * j + 3)
    /\ CharAt(s, dot) = "."
    /\ AllDigits(s, dot + 1, dot + 2)

\* r'\b\d{1,3}(?:,\d{3})*\.\d{2}\b' with d leading digits and g groups
AmountTry(s, i, d, g) ==
    LET dot == i + d + 4 * g IN
    /\ WordBoundary(s, i)
    /\ AllDigits(s, i, i + d - 1)
    /\ \A j \in 0..(g - 1) :
           /\ CharAt(s, i + d + 4 * j) = ","
           /\ AllDigits(s, i + d + 4 * j + 1, i + d + 4 * j + 3)
    /\ CharAt(s, dot) = "."
    /\ AllDigits(s, dot + 1, dot + 2)
    /\ WordBoundary(s, dot + 3)

\* the backtracking order: most leading digits first, then most groups
AmountPattern(s, i) ==
    LET ok == {dg \in (1..3) \X (0..((Len(s) - i) \div 4)) :
                  AmountTry(s, i, dg[1], dg[2])}
    IN  IF ok = {} THEN 0
        ELSE LET d == Max({dg[1] : dg \in ok})
                 g == Max({dg[2] : dg \in {x \in ok : x[1] = d}})
             IN  d + 4 * g + 3

re_match(pattern, s, i) ==
    CASE pattern = "YYYY-MM-DD" -> DatePatternISO(s, i)
      [] pattern = "DD/MM/YYYY" -> DatePatternDMY(s, i)
      [] pattern = "amount" -> AmountPattern(s, i)

\* re.finditer: the spans <<first, last>> of the non-overlapping matches,
\* scanning left to right from position i
RECURSIVE finditer(_, _, _)
finditer(pattern, s, i) ==
    IF i > Len(s) THEN <<>>
    ELSE LET n == re_match(pattern, s, i) IN
         IF n = 0 THEN finditer(pattern, s, i + 1)
         ELSE <<(<<i, i + n - 1>>)>> \o finditer(pattern, s, i + n)

\* re.findall: the matched substrings
findall(pattern, s) ==
    LET spans == finditer(pattern, s, 1) IN
    [k \in 1..Len(spans) |-> SubSeq(s, spans[k][1], spans[k][2])]

-----------------------------------------------------------------------------
(* OCREngine                                                               *)

\* the two patterns listed the other way round
date_patterns_swapped == <<"DD/MM/YYYY", "YYYY-MM-DD">>

date_patterns == <<"YYYY-MM-DD", "DD/MM/YYYY">>

amount_pattern == "amount"

VendorMaxLen == 100

Ellipsis == <<".", ".", ".">>

UnknownVendor ==
    <<"U", "n", "k", "n", "o", "w", "n", " ", "V", "e", "n", "d", "o", "r">>

\* dates = []; for pattern in date_patterns: dates.extend(findall)
RECURSIVE extend_dates(_, _, _)
extend_dates(dates, k, s) ==
    IF k > Len(date_patterns) THEN dates
    ELSE extend_dates(dates \o findall(date_patterns[k], s), k + 1, s)

extract_dates(s) == extend_dates(<<>>, 1, s)

extract_amounts(s) == findall(amount_pattern, s)

\* the slice one character too long: vendor[:101]
extract_vendor_long_slice(s) ==
    LET lines == split(strip(s), "\n") IN
    IF lines # <<>>
    THEN LET vendor == strip(lines[1]) IN
         IF Len(vendor) > VendorMaxLen
         THEN SubSeq(vendor, 1, VendorMaxLen + 1) \o Ellipsis
         ELSE vendor
    ELSE UnknownVendor

extract_vendor(s) ==
    LET lines == split(strip(s), "\n") IN
    IF lines # <<>>
    THEN LET vendor == strip(lines[1]) IN
         IF Len(vendor) > VendorMaxLen
         THEN SubSeq(vendor, 1, VendorMaxLen) \o Ellipsis
         ELSE vendor
    ELSE UnknownVendor

\* A PDF as pdfplumber sees it: whether it opens, and the text of each
\* page (None or "" for a page without a text layer).
ExtractError == "Failed to extract text from PDF"

RECURSIVE concat_pages(_, _)
concat_pages(pages, acc) ==
    IF pages = <<>> THEN acc
    ELSE LET page_text == Head(pages) IN
         IF page_text # None /\ page_text # <<>>
         THEN concat_pages(Tail(pages), acc \o page_text \o <<"\n">>)
         ELSE concat_pages(Tail(pages), acc)

\* returns the text, or raises
extract_text_from_pdf(pdf) ==
    IF pdf.readable
    THEN [raised |-> FALSE, value |-> concat_pages(pdf.pages, <<>>)]
    ELSE [raised |-> TRUE, error |-> ExtractError]

-----------------------------------------------------------------------------
(* InvoiceParser and ReceiptParser.  parse returns a record, or raises     *)
(* what extract_text_from_pdf raised.                                      *)

DefaultAmount == <<"0", ".", "0", "0">>

Min(a, b) == IF a <= b THEN a ELSE b

\* the second test written as elif
calculate_confidence_elif(dates, amounts) ==
    LET base == 50
        score == IF dates # <<>> THEN base + 25
                 ELSE IF amounts # <<>> THEN base + 25
                 ELSE base
    IN  Min(score, 100)

\* InvoiceParser._calculate_confidence, in hundredths
calculate_confidence(dates, amounts) ==
    LET base == 50
        withDates == IF dates # <<>> THEN base + 25 ELSE base
        score == IF amounts # <<>> THEN withDates + 25 ELSE withDates
    IN  Min(score, 100)

\* the failure caught and an empty text analysed in its place
InvoiceParser_parse_swallow(pdf) ==
    LET got == extract_text_from_pdf(pdf)
        t == IF got.raised THEN <<>> ELSE got.value
        dates == extract_dates(t)
        amounts == extract_amounts(t)
        vendor == extract_vendor(t)
    IN  [raised |-> FALSE,
         value |->
           [document_type |-> "invoice",
            vendor |-> vendor,
            invoice_date |-> IF dates # <<>> THEN dates[1] ELSE None,
            total_amount |-> IF amounts # <<>>
                             THEN amounts[Len(amounts)]
                             ELSE DefaultAmount,
            detected_amounts |-> amounts,
            detected_dates |-> dates,
            confidence |-> calculate_confidence(dates, amounts),
            raw_text_length |-> Len(t)]]

InvoiceParser_parse(pdf) ==
    LET got == extract_text_from_pdf(pdf) IN
    IF got.raised THEN got
    ELSE LET t == got.value
             dates == extract_dates(t)
             amounts == extract_amounts(t)
             vendor == extract_vendor(t)
         IN  [raised |-> FALSE,
              value |->
                [document_type |-> "invoice",
                 vendor |-> vendor,
                 invoice_date |-> IF dates # <<>> THEN dates[1] ELSE None,
                 total_amount |-> IF amounts # <<>>
                                  THEN amounts[Len(amounts)]
                                  ELSE DefaultAmount,
                 detected_amounts |-> amounts,
                 detected_dates |-> dates,
                 confidence |-> calculate_confidence(dates, amounts),
                 raw_text_length |-> Len(t)]]

\* the total taken from the first amount, amounts[0]
ReceiptParser_parse_first_amount(pdf) ==
    LET got == extract_text_from_pdf(pdf) IN
    IF got.raised THEN got
    ELSE LET t == got.value
             dates == extract_dates(t)
             amounts == extract_amounts(t)
             vendor == extract_vendor(t)
         IN  [raised |-> FALSE,
              value |->
                [document_type |-> "receipt",
                 merchant |-> vendor,
                 purchase_date |-> IF dates # <<>> THEN dates[1] ELSE None,
                 total |-> IF amounts # <<>>
                           THEN amounts[1]
                           ELSE DefaultAmount,
                 items_detected |-> Len(amounts),
                 confidence |-> IF dates # <<>> /\ amounts # <<>>
                                THEN 80 ELSE 50]]

ReceiptParser_parse(pdf) ==
    LET got == extract_text_from_pdf(pdf) IN
    IF got.raised THEN got
    ELSE LET t == got.value
             dates == extract_dates(t)
             amounts == extract_amounts(t)
             vendor == extract_vendor(t)
         IN  [raised |-> FALSE,
              value |->
                [document_type |-> "receipt",
                 merchant |-> vendor,
                 purchase_date |-> IF dates # <<>> THEN dates[1] ELSE None,
                 total |-> IF amounts # <<>>
                           THEN amounts[Len(amounts)]
                           ELSE DefaultAmount,
                 items_detected |-> Len(amounts),
                 confidence |-> IF dates # <<>> /\ amounts # <<>>
                                THEN 80 ELSE 50]]

-----------------------------------------------------------------------------
(* The analysis of one document: its text is put together from pieces,     *)
(* then the OCREngine functions or one of the parsers run on it.           *)

MaxPieces == 3

Pieces ==
    { <<"2", "0", "2", "4", "-", "0", "3", "-", "1", "5">>,
      <<"1", "5", "/", "0", "3", "/", "2", "0", "2", "4">>,
      <<"1", "0", "0", ".", "0", "0">>,
      <<"1", ",", "2", "0", "0", ".", "5", "0">>,
      <<"1">>, <<",">>, <<".">>, <<"a">>, <<"\n">> }

NoRequest ==
    /\ pc = "idle"
    /\ endpoint = "none"
    /\ files = <<>>
    /\ idx = 0
    /\ results = <<>>
    /\ response = [code |-> 0]
    /\ tmpfiles = {}
    /\ created = {}
    /\ parseLog = <<>>

TextInit ==
    /\ text = <<>>
    /\ pieces = 0
    /\ out = [op |-> "none"]
    /\ NoRequest

AppendPiece(p) ==
    /\ out.op = "none"
    /\ pieces < MaxPieces
    /\ text' = text \o p
    /\ pieces' = pieces + 1
    /\ UNCHANGED <<out>>
    /\ UNCHANGED apiVars

\* the three extraction functions on the text as it stands
Extract ==
    /\ out.op = "none"
    /\ out' = [op |-> "extract",
               dates |-> extract_dates(text),
               amounts |-> extract_amounts(text),
               amount_spans |-> finditer(amount_pattern, text, 1),
               vendor |-> extract_vendor(text)]
    /\ UNCHANGED <<text, pieces>>
    /\ UNCHANGED apiVars

\* the text is the one page of a PDF that opens, or fails to open
ParseInvoice(readable) ==
    /\ out.op = "none"
    /\ LET pdf == [readable |-> readable, pages |-> <<text>>] IN
       out' = [op |-> "invoice", pdf |-> pdf, ret |-> InvoiceParser_parse(pdf)]
    /\ UNCHANGED <<text, pieces>>
    /\ UNCHANGED apiVars

ParseReceipt(readable) ==
    /\ out.op = "none"
    /\ LET pdf == [readable |-> readable, pages |-> <<text>>] IN
       out' = [op |-> "receipt", pdf |-> pdf, ret |-> ReceiptParser_parse(pdf)]
    /\ UNCHANGED <<text, pieces>>
    /\ UNCHANGED apiVars

TextNext ==
    \/ \E p \in Pieces : AppendPiece(p)
    \/ Extract
    \/ \E readable \in BOOLEAN : ParseInvoice(readable)
    \/ \E readable \in BOOLEAN : ParseReceipt(readable)

SpecText == TextInit /\ [][TextNext]_vars

-----------------------------------------------------------------------------
(* A long vendor line: leading whitespace, a run of one character, a tail. *)

MaxLine == 150

Leads == { <<>>, <<" ">>, <<"\n", " ">>, <<"\t">> }

Tails == { <<>>, <<" ">>, <<" ", "\n", "b">>, <<"\n">> }

Fills == {"x", " "}

Run(c, n) == [k \in 1..n |-> c]

VendorInit ==
    /\ text \in {lead \o Run(c, n) \o tail :
                    lead \in Leads, c \in Fills, n \in 0..MaxLine,
                    tail \in Tails}
    /\ pieces = 0
    /\ out = [op |-> "none"]
    /\ NoRequest

ExtractVendor ==
    /\ out.op = "none"
    /\ out' = [op |-> "vendor", vendor |-> extract_vendor(text)]
    /\ UNCHANGED <<text, pieces>>
    /\ UNCHANGED apiVars

VendorNext == ExtractVendor

SpecVendor == VendorInit /\ [][VendorNext]_vars

-----------------------------------------------------------------------------
(* The extraction endpoints of src/main.py.  One request is served: it     *)
(* arrives, its handler runs, the response is produced.                    *)
(*                                                                         *)
(* An uploaded file is [filename, pdf, large]: large says that its content *)
(* is at least io.DEFAULT_BUFFER_SIZE bytes, so that tmp.write(content)    *)
(* reaches the disk at once; a smaller content stays in the writer's       *)
(* buffer until the with block closes the temp file.  pdfplumber cannot    *)
(* open the empty file that is on disk until then.  file.read() and the    *)
(* creation of the temp file are taken to succeed.                         *)

\* the limit test off by one
BatchLimit_off_by_one == 10 + 1

BatchLimit == 10

MaxFiles == 11

MaxPattern == 2

pdf_suffix == <<".", "p", "d", "f">>

invoice_word == <<"i", "n", "v", "o", "i", "c", "e">>

Corrupt == [readable |-> FALSE, pages |-> <<>>]

EmptyFile == [readable |-> FALSE, pages |-> <<>>]

PdfInvoice ==
    [readable |-> TRUE,
     pages |-> << <<"A", "c", "m", "e", "\n", "2", "0", "2", "4", "-", "0",
                   "3", "-", "1", "5", "\n", "1", ",", "2", "0", "0", ".",
                   "5", "0">> >>]

\* no text layer on its only page
PdfBlank == [readable |-> TRUE, pages |-> <<None>>]

\* three pages, the second one empty
PdfReceipt ==
    [readable |-> TRUE,
     pages |-> << <<"S", "t", "o", "r", "e", "X", "\n", "1", "5", "/", "0",
                   "3", "/", "2", "0", "2", "4">>,
                 <<>>,
                 <<"T", "o", "t", "a", "l", " ", "8", ".", "0", "0">> >>]

Pdfs == {Corrupt, PdfInvoice, PdfBlank, PdfReceipt}

invoice_pdf == <<"i", "n", "v", "o", "i", "c", "e", ".", "p", "d", "f">>

INVOICE_7_pdf ==
    <<"I", "N", "V", "O", "I", "C", "E", "_", "7", ".", "p", "d", "f">>

receipt_pdf == <<"r", "e", "c", "e", "i", "p", "t", ".", "p", "d", "f">>

test_txt == <<"t", "e", "s", "t", ".", "t", "x", "t">>

scan_PDF == <<"s", "c", "a", "n", ".", "P", "D", "F">>

Filenames == {invoice_pdf, INVOICE_7_pdf, receipt_pdf, test_txt, scan_PDF}

Uploads == [filename : Filenames, pdf : Pdfs, large : BOOLEAN]

BatchUploads ==
    [filename : {INVOICE_7_pdf, receipt_pdf},
     pdf : {Corrupt, PdfReceipt},
     large : BOOLEAN]

\* the files of a batch request: n files that repeat a pattern
Repeat(pattern, n) == [k \in 1..n |-> pattern[((k - 1) % Len(pattern)) + 1]]

Patterns == UNION {[1..m -> BatchUploads] : m \in 1..MaxPattern}

\* what a reader of the temp file finds while the with block is open
SeenWhileOpen(file) == IF file.large THEN file.pdf ELSE EmptyFile

\* the name tempfile.NamedTemporaryFile picks: one not in use
NewTmp ==
    CHOOSE n \in 1..(Cardinality(tmpfiles \cup created) + 1) :
        /\ n \notin tmpfiles \cup created
        /\ \A m \in 1..(n - 1) : m \in tmpfiles \cup created

ApiInit ==
    /\ text = <<>>
    /\ pieces = 0
    /\ out = [op |-> "none"]
    /\ NoRequest

Receive(ep, fs) ==
    /\ pc = "idle"
    /\ pc' = "received"
    /\ endpoint' = ep
    /\ files' = fs
    /\ UNCHANGED <<idx, results, response, tmpfiles, created, parseLog>>
    /\ UNCHANGED textVars

\* extract_invoice and extract_receipt after the file-type check: the temp
\* file tmp_path is written and closed, the parser has returned or raised
\* ret on it, and the try block or the except block ends the request
single_file_response(parser, tmp_path, seen, ret) ==
    LET saved == tmpfiles \cup {tmp_path} IN
    /\ created' = created \cup {tmp_path}
    /\ parseLog' = Append(parseLog,
                      [parser |-> parser, path |-> tmp_path,
                       seen |-> seen, ret |-> ret])
    /\ IF ~ret.raised
       THEN /\ tmpfiles' = saved \ {tmp_path}
            /\ response' = [code |-> 200,
                            status |-> "success",
                            data |-> ret.value,
                            confidence |-> ret.value.confidence]
       ELSE /\ tmpfiles' = IF tmp_path \in saved THEN saved \ {tmp_path}
                           ELSE saved
            /\ response' = [code |-> 500,
                            detail |-> <<"Processing error", ret.error>>]

\* POST /api/v1/extract/invoice
extract_invoice ==
    /\ pc = "received"
    /\ endpoint = "invoice"
    /\ pc' = "done"
    /\ IF ~endswith(files[1].filename, pdf_suffix)
       THEN /\ response' = [code |-> 400,
                            detail |-> "Only PDF files are supported"]
            /\ UNCHANGED <<tmpfiles, created, parseLog>>
       ELSE single_file_response("invoice", NewTmp, files[1].pdf,
                                 InvoiceParser_parse(files[1].pdf))
    /\ UNCHANGED <<endpoint, files, idx, results>>
    /\ UNCHANGED textVars

\* POST /api/v1/extract/receipt
extract_receipt ==
    /\ pc = "received"
    /\ endpoint = "receipt"
    /\ pc' = "done"
    /\ IF ~endswith(files[1].filename, pdf_suffix)
       THEN /\ response' = [code |-> 400,
                            detail |-> "Only PDF files are supported"]
            /\ UNCHANGED <<tmpfiles, created, parseLog>>
       ELSE single_file_response("receipt", NewTmp, files[1].pdf,
                                 ReceiptParser_parse(files[1].pdf))
    /\ UNCHANGED <<endpoint, files, idx, results>>
    /\ UNCHANGED textVars

\* POST /api/v1/extract/batch: the limit check
extract_batch_check ==
    /\ pc = "received"
    /\ endpoint = "batch"
    /\ IF Len(files) > BatchLimit
       THEN /\ pc' = "done"
            /\ response' = [code |-> 400,
                            detail |-> "Maximum 10 files per batch"]
            /\ UNCHANGED <<idx, results>>
       ELSE /\ pc' = "loop"
            /\ idx' = 0
            /\ results' = <<>>
            /\ UNCHANGED response
    /\ UNCHANGED <<endpoint, files, tmpfiles, created, parseLog>>
    /\ UNCHANGED textVars

\* the parser the batch loop picks from the filename
batch_parser(filename) ==
    IF contains(lower(filename), invoice_word) THEN "invoice" ELSE "receipt"

batch_parse(parser, seen) ==
    IF parser = "invoice" THEN InvoiceParser_parse(seen)
    ELSE ReceiptParser_parse(seen)

\* the end of one turn of the loop with the error answered by a 500
batch_file_result_abort(file, parser, tmp_name, seen, ret) ==
    LET saved == tmpfiles \cup {tmp_name} IN
    /\ created' = created \cup {tmp_name}
    /\ parseLog' = Append(parseLog,
                      [parser |-> parser, path |-> tmp_name,
                       seen |-> seen, ret |-> ret])
    /\ idx' = idx + 1
    /\ UNCHANGED <<endpoint, files>>
    /\ IF ~ret.raised
       THEN /\ tmpfiles' = saved \ {tmp_name}
            /\ results' = Append(results,
                            [filename |-> file.filename,
                             status |-> "success",
                             data |-> ret.value])
            /\ UNCHANGED <<pc, response>>
       ELSE /\ tmpfiles' = saved
            /\ UNCHANGED results
            /\ pc' = "done"
            /\ response' = [code |-> 500,
                            detail |-> <<"Processing error", ret.error>>]

\* the end of one turn of the loop: the parser ran inside the with block
\* on the temp file tmp_name and returned or raised ret; os.unlink is not
\* reached when it raised, and the except block records the error
batch_file_result(file, parser, tmp_name, seen, ret) ==
    LET saved == tmpfiles \cup {tmp_name} IN
    /\ created' = created \cup {tmp_name}
    /\ parseLog' = Append(parseLog,
                      [parser |-> parser, path |-> tmp_name,
                       seen |-> seen, ret |-> ret])
    /\ idx' = idx + 1
    /\ UNCHANGED <<endpoint, files>>
    /\ IF ~ret.raised
       THEN /\ tmpfiles' = saved \ {tmp_name}
            /\ results' = Append(results,
                            [filename |-> file.filename,
                             status |-> "success",
                             data |-> ret.value])
            /\ UNCHANGED <<pc, response>>
       ELSE /\ tmpfiles' = saved
            /\ results' = Append(results,
                            [filename |-> file.filename,
                             status |-> "error",
                             error |-> ret.error])
            /\ UNCHANGED <<pc, response>>

\* one turn of "for file in files"
extract_batch_file ==
    /\ pc = "loop"
    /\ idx < Len(files)
    /\ batch_file_result(files[idx + 1],
                         batch_parser(files[idx + 1].filename),
                         NewTmp,
                         SeenWhileOpen(files[idx + 1]),
                         batch_parse(batch_parser(files[idx + 1].filename),
                                     SeenWhileOpen(files[idx + 1])))
    /\ UNCHANGED textVars

\* return {"results": results, "total": len(files)}
extract_batch_return ==
    /\ pc = "loop"
    /\ idx = Len(files)
    /\ pc' = "done"
    /\ response' = [code |-> 200, results |-> results, total |-> Len(files)]
    /\ UNCHANGED <<endpoint, files, idx, results, tmpfiles, created, parseLog>>
    /\ UNCHANGED textVars

ApiNext ==
    \/ \E file \in Uploads : Receive("invoice", <<file>>)
    \/ \E file \in Uploads : Receive("receipt", <<file>>)
    \/ \E pattern \in Patterns : \E n \in 1..MaxFiles :
          Receive("batch", Repeat(pattern, n))
    \/ extract_invoice
    \/ extract_receipt
    \/ extract_batch_check
    \/ extract_batch_file
    \/ extract_batch_return

SpecApi == ApiInit /\ [][ApiNext]_vars

-----------------------------------------------------------------------------
(* Properties of the analysis of one document                              *)

Parsed == out.op \in {"invoice", "receipt"} /\ ~out.ret.raised

\* the text the parser worked on
Acquired == extract_text_from_pdf(out.pdf).value

PrimaryAmount ==
    IF out.op = "invoice" THEN out.ret.value.total_amount
    ELSE out.ret.value.total

PrimaryDate ==
    IF out.op = "invoice" THEN out.ret.value.invoice_date
    ELSE out.ret.value.purchase_date

Blank(s) == \A k \in 1..Len(s) : s[k] \in Whitespace

\* the first line of s that is not blank, without its outer whitespace
FirstNonEmptyLine(s) ==
    LET lines == split(s, "\n")
        k == CHOOSE j \in 1..Len(lines) :
                 /\ ~Blank(lines[j])
                 /\ \A h \in 1..(j - 1) : Blank(lines[h])
    IN  strip(lines[k])

\* C1: extract_vendor returns the first non-empty line of the text, and
\* "Unknown Vendor" when the text is empty or only whitespace; parsing an
\* invoice whose text is "" yields vendor = "Unknown Vendor".
C1_VendorOrSentinel ==
    /\ out.op = "extract" =>
          IF Blank(text) THEN out.vendor = UnknownVendor
          ELSE out.vendor = FirstNonEmptyLine(text)
    /\ (out.op = "invoice" /\ ~out.ret.raised /\ Acquired = <<>>) =>
          out.ret.value.vendor = UnknownVendor

\* C2: the primary amount of a parse result is always populated: the last
\* amount candidate when there is one, the literal "0.00" when there is
\* none, never None.
C2_PrimaryAmount ==
    Parsed =>
       LET amounts == extract_amounts(Acquired) IN
       /\ (IF out.op = "invoice" THEN "total_amount" ELSE "total")
              \in DOMAIN out.ret.value
       /\ PrimaryAmount # None
       /\ amounts # <<>> => PrimaryAmount = amounts[Len(amounts)]
       /\ amounts = <<>> => PrimaryAmount = DefaultAmount

C2_Witness ==
    /\ Parsed
    /\ out.op = "receipt"
    /\ LET amounts == extract_amounts(Acquired) IN
       /\ Len(amounts) >= 2
       /\ amounts[1] # amounts[Len(amounts)]
       /\ out.ret.value.total = amounts[Len(amounts)]

IsISOShape(tok) ==
    /\ Len(tok) = 10
    /\ \A k \in {1, 2, 3, 4, 6, 7, 9, 10} : tok[k] \in Digits
    /\ tok[5] = "-" /\ tok[8] = "-"

IsDMYShape(tok) ==
    /\ Len(tok) \in 8..10
    /\ \A k \in (1..Len(tok)) \ {3, 6} : tok[k] \in Digits
    /\ tok[3] \in {"/", "-"} /\ tok[6] \in {"/", "-"}

ISOAt(s, i) == i + 9 <= Len(s) /\ IsISOShape(SubSeq(s, i, i + 9))

DMYLens(s, i) ==
    {n \in 8..10 : i + n - 1 <= Len(s) /\ IsDMYShape(SubSeq(s, i, i + n - 1))}

ISOStarts(s) == {i \in 1..Len(s) : ISOAt(s, i)}

DMYStarts(s) == {i \in 1..Len(s) : DMYLens(s, i) # {}}

\* the date the claim names: the textually first YYYY-MM-DD match if any,
\* else the textually first DD[/-]MM[/-]YY(YY) match, else None
TextualPrimaryDate(s) ==
    IF ISOStarts(s) # {}
    THEN LET i == Least(ISOStarts(s)) IN SubSeq(s, i, i + 9)
    ELSE IF DMYStarts(s) # {}
    THEN LET i == Least(DMYStarts(s)) IN
         SubSeq(s, i, i + Max(DMYLens(s, i)) - 1)
    ELSE None

\* C3: the primary date of a parse result is None when extract_dates finds
\* nothing, else the first element of extract_dates; in that sequence all
\* YYYY-MM-DD matches precede all DD[/-]MM[/-]YY(YY) matches whatever their
\* place in the text, so the primary date is the textually first YYYY-MM-DD
\* match if any, else the textually first DD[/-]MM[/-]YY(YY) match.
C3_PrimaryDate ==
    Parsed =>
       LET dates == extract_dates(Acquired) IN
       /\ dates = <<>> => PrimaryDate = None
       /\ dates # <<>> => PrimaryDate = dates[1]
       /\ \A i, j \in 1..Len(dates) :
              i < j => ~(IsDMYShape(dates[i]) /\ IsISOShape(dates[j]))
       /\ PrimaryDate = TextualPrimaryDate(Acquired)

C3_Witness ==
    /\ Parsed
    /\ out.op = "invoice"
    /\ ISOStarts(Acquired) # {}
    /\ DMYStarts(Acquired) # {}
    /\ Least(DMYStarts(Acquired)) < Least(ISOStarts(Acquired))
    /\ IsISOShape(out.ret.value.invoice_date)

\* C4: invoice confidence is 0.5 + 0.25 (a date candidate exists) + 0.25
\* (an amount candidate exists), so one of 0.5, 0.75, 1.0 and never above
\* 1.0; receipt confidence is 0.8 exactly when both candidate lists are
\* non-empty and 0.5 otherwise.
C4_Confidence ==
    Parsed =>
       LET dates == extract_dates(Acquired)
           amounts == extract_amounts(Acquired)
           confidence == out.ret.value.confidence
       IN  IF out.op = "invoice"
           THEN /\ confidence = 50 + (IF dates # <<>> THEN 25 ELSE 0)
                                   + (IF amounts # <<>> THEN 25 ELSE 0)
                /\ confidence \in {50, 75, 100}
                /\ confidence <= 100
           ELSE /\ confidence = 80 <=> (dates # <<>> /\ amounts # <<>>)
                /\ confidence \in {50, 80}

C4_Witness ==
    /\ Parsed
    /\ out.op = "invoice"
    /\ extract_dates(Acquired) # <<>>
    /\ extract_amounts(Acquired) # <<>>
    /\ out.ret.value.confidence = 100

\* 1-3 digits, groups of a comma and exactly 3 digits, a point, 2 digits
IsAmountShape(tok) ==
    \E d \in 1..3 : \E g \in 0..Len(tok) :
        /\ Len(tok) = d + 4 * g + 3
        /\ \A k \in 1..d : tok[k] \in Digits
        /\ \A j \in 0..(g - 1) :
               /\ tok[d + 4 * j + 1] = ","
               /\ \A k \in 2..4 : tok[d + 4 * j + k] \in Digits
        /\ tok[d + 4 * g + 1] = "."
        /\ tok[d + 4 * g + 2] \in Digits
        /\ tok[d + 4 * g + 3] \in Digits

C9_VendorLength ==
    out.op = "vendor" =>
       LET line == strip(split(strip(text), "\n")[1]) IN
       /\ Len(out.vendor) <= 103
       /\ Len(line) > 100 => out.vendor = SubSeq(line, 1, 100) \o <<".", ".", ".">>
       /\ Len(line) <= 100 => out.vendor = line

C9_Witness ==
    /\ out.op = "vendor"
    /\ Len(strip(split(strip(text), "\n")[1])) = 150
    /\ Len(out.vendor) = 103

-----------------------------------------------------------------------------
(* Properties of the endpoints                                             *)

SingleFile == endpoint \in {"invoice", "receipt"}

\* text acquisition fails on what the parser was given
AcquisitionFails(seen) == extract_text_from_pdf(seen).raised

\* C6: a batch of at most 10 files is never cut short by a failing file:
\* the response holds one entry per file, in order, "error" with the error
\* text for each file whose text acquisition failed and "success" with its
\* data for each other file, and total is the number of files.
C6_BatchIsolation ==
    /\ (endpoint = "batch" /\ pc = "loop") =>
          /\ Len(results) = idx
          /\ Len(parseLog) = idx
    /\ (endpoint = "batch" /\ pc = "done" /\ Len(files) <= 10) =>
          /\ response.code = 200
          /\ response.total = Len(files)
          /\ Len(response.results) = Len(files)
          /\ Len(parseLog) = Len(files)
          /\ \A k \in 1..Len(files) :
                LET entry == response.results[k]
                    call == parseLog[k]
                IN  /\ entry.filename = files[k].filename
                    /\ call.seen = SeenWhileOpen(files[k])
                    /\ IF AcquisitionFails(call.seen)
                       THEN /\ entry.status = "error"
                            /\ entry.error = ExtractError
                            /\ "data" \notin DOMAIN entry
                       ELSE /\ entry.status = "success"
                            /\ entry.data = call.ret.value
                            /\ entry.data.document_type = call.parser

C6_Witness ==
    /\ endpoint = "batch"
    /\ pc = "done"
    /\ Len(files) = 10
    /\ response.code = 200
    /\ \E j, k \in 1..Len(files) :
          /\ j < k
          /\ response.results[j].status = "error"
          /\ response.results[k].status = "success"

\* C7: when text acquisition fails the parsers raise and return no record,
\* and extract_invoice and extract_receipt answer 500, never "success".
C7_FailurePropagates ==
    /\ \A k \in 1..Len(parseLog) :
          AcquisitionFails(parseLog[k].seen) =>
             /\ parseLog[k].ret.raised
             /\ "value" \notin DOMAIN parseLog[k].ret
             /\ parseLog[k].ret.error = ExtractError
    /\ (/\ SingleFile
        /\ pc = "done"
        /\ endswith(files[1].filename, pdf_suffix)
        /\ AcquisitionFails(files[1].pdf)) =>
          /\ response.code = 500
          /\ "status" \notin DOMAIN response
          /\ "data" \notin DOMAIN response
          /\ Len(parseLog) = 1

C7_Witness ==
    /\ endpoint = "invoice"
    /\ pc = "done"
    /\ Len(parseLog) = 1
    /\ parseLog[1].ret.raised
    /\ response.code = 500

\* the request fails validation
Rejected ==
    \/ SingleFile /\ ~endswith(files[1].filename, pdf_suffix)
    \/ endpoint = "batch" /\ Len(files) > 10

\* C8: a single-file request whose filename does not end in ".pdf", and a
\* batch of more than 10 files, is answered 400 with no temp file created
\* and no parser invoked.
C8_ValidationFirst ==
    Rejected =>
       /\ created = {}
       /\ parseLog = <<>>
       /\ pc \in {"received", "done"}
       /\ pc = "done" => response.code = 400

C8_Witness ==
    /\ endpoint = "batch"
    /\ Len(files) = 11
    /\ pc = "done"
    /\ response.code = 400
    /\ created = {}

\* C10: once the response is produced, every temp file the request
\* created has been deleted.
C10_TempFilesDeleted ==
    pc = "done" => created \cap tmpfiles = {}

=============================================================================
